---- MODULE Spec2Model ----
(***************************************************************************)
(* Lens Bender: the optical ray-tracing kernel of the Sensor (the GLSL     *)
(* fragment shader raytraceFS), the scene-object encoder that feeds it     *)
(* (Sensor.updateSceneData) and the render loop of main that drives both.  *)
(*                                                                         *)
(* Numbers.  A float x of the program is the integer round(x * Scale): a   *)
(* fixed-point grid of step 1/Scale.  Products and quotients are rounded   *)
(* to the nearest grid point, square roots are rounded down.               *)
(***************************************************************************)
EXTENDS Integers, Sequences, FiniteSets, TLC

VARIABLES
    entities,        \* main: the entity list, in addToScene / update order
    meshes,          \* scene.meshes, in creation order
    hookPending,     \* main: the onAfterRenderObservable.addOnce callback has not run yet
    pc,              \* position of the render loop
    frame,           \* number of render-loop callbacks started
    accumTime,       \* Sensor._accumTime (ms)
    plane,           \* Sensor._plane: [position, rotationY]
    uniforms,        \* the shader material's uniforms and its data texture
    scan,            \* what the last scene.render read
    fn,              \* kernel specifications: the function under evaluation
    args,            \* its arguments
    ret              \* its result

vars == <<entities, meshes, hookPending, pc, frame, accumTime, plane, uniforms, scan, fn, args, ret>>

loopVars == <<entities, meshes, hookPending, pc, frame, accumTime, plane, uniforms, scan>>

kernelVars == <<fn, args, ret>>

---------------------------------------------------------------------------
(* Evaluate once, then use: With(e, LAMBDA x : body) is body with x = e. *)

With(e, Op(_)) == CHOOSE r \in {Op(x) : x \in {e}} : TRUE

With2(e1, e2, Op(_, _)) == CHOOSE r \in {Op(x, y) : x \in {e1}, y \in {e2}} : TRUE

With3(e1, e2, e3, Op(_, _, _)) ==
    CHOOSE r \in {Op(x, y, z) : x \in {e1}, y \in {e2}, z \in {e3}} : TRUE

---------------------------------------------------------------------------
(* Fixed-point arithmetic *)

Scale == 1000

F(n) == n * Scale

abs(x) == IF x < 0 THEN -x ELSE x

max(a, b) == IF a > b THEN a ELSE b

min(a, b) == IF a < b THEN a ELSE b

sign(x) == IF x < 0 THEN -1 ELSE 1

\* <<q, r>> with a * b = q * c + r and 0 <= r < c, for a, b >= 0 and c > 0,
\* without an intermediate beyond 32 bits: directly, or with a factor of c
\* cancelled, or from a = (a \div c) * c + a % c (or the same for b), or
\* else by halving b.
RECURSIVE MulDivQR(_, _, _)
MulDivQR(a, b, c) ==
    IF a = 0 \/ b <= 2147483647 \div a
    THEN <<(a * b) \div c, (a * b) % c>>
    ELSE IF c % b = 0
    THEN <<a \div (c \div b), (a % (c \div b)) * b>>
    ELSE IF c % a = 0
    THEN <<b \div (c \div a), (b % (c \div a)) * a>>
    ELSE IF c <= 2147483647 \div b
    THEN <<(a \div c) * b + ((a % c) * b) \div c, ((a % c) * b) % c>>
    ELSE IF c <= 2147483647 \div a
    THEN <<(b \div c) * a + ((b % c) * a) \div c, ((b % c) * a) % c>>
    ELSE With(MulDivQR(a, b \div 2, c), LAMBDA h :
             With(2 * h[2] + (IF b % 2 = 1 THEN a % c ELSE 0), LAMBDA r2 :
                 <<2 * h[1] + (IF b % 2 = 1 THEN a \div c ELSE 0) + r2 \div c, r2 % c>>))

\* a * b / c rounded to the nearest integer (half away from zero).
MulDiv(a, b, c) ==
    With3(a, b, c, LAMBDA x, y, z :
        With(MulDivQR(abs(x), abs(y), abs(z)), LAMBDA qr :
            sign(x) * sign(y) * sign(z) * (qr[1] + (IF 2 * qr[2] >= abs(z) THEN 1 ELSE 0))))

\* p / c rounded to the nearest integer (half away from zero), p within 32 bits
RoundDiv(p, c) ==
    sign(p) * sign(c)
        * (abs(p) \div abs(c) + (IF 2 * (abs(p) % abs(c)) >= abs(c) THEN 1 ELSE 0))

fmul(a, b) ==
    With2(a, b, LAMBDA x, y :
        IF abs(x) <= 46340 /\ abs(y) <= 46340 THEN RoundDiv(x * y, Scale)
        ELSE MulDiv(x, y, Scale))

fdiv(a, b) ==
    With2(a, b, LAMBDA x, y :
        IF abs(x) <= 2147483 /\ abs(y) <= 1000000000 THEN RoundDiv(x * Scale, y)
        ELSE MulDiv(x, Scale, y))

\* r * r <= v * Scale
SqLe(r, v) ==
    With(MulDivQR(r, r, Scale), LAMBDA qr : qr[1] < v \/ (qr[1] = v /\ qr[2] = 0))

\* r fits under the root of v: r * r <= v * Scale, r within 32 bits' roots
SqFits(r, v) == r <= 1460000 /\ SqLe(r, v)

\* The largest k in 0..15 with lo + k * step under the root of v, by bisection
SqrtDigit(v, lo, step) ==
    With(IF SqFits(lo + 8 * step, v) THEN 8 ELSE 0, LAMBDA k3 :
        With(IF SqFits(lo + (k3 + 4) * step, v) THEN k3 + 4 ELSE k3, LAMBDA k2 :
            With(IF SqFits(lo + (k2 + 2) * step, v) THEN k2 + 2 ELSE k2, LAMBDA k1 :
                IF SqFits(lo + (k1 + 1) * step, v) THEN k1 + 1 ELSE k1)))

\* The largest r = lo + k * step, k in 0..15, with r * r <= v * Scale, then
\* the same from r with the next smaller step: one hexadecimal digit of the
\* root at a time.  1460000 is above the root of the largest 32-bit v.
RECURSIVE SqrtSearch(_, _, _)
SqrtSearch(v, lo, step) ==
    IF step = 0 THEN lo
    ELSE With(SqrtDigit(v, lo, step), LAMBDA k :
             SqrtSearch(v, lo + k * step, step \div 16))

\* sqrt(v) for v >= 0, rounded down to the grid.
sqrt(v) == With(v, LAMBDA x : SqrtSearch(x, 0, 1048576))

(* vec3 *)

vec3(x, y, z) == <<x, y, z>>

zero3 == vec3(0, 0, 0)

vadd(a, b) == With2(a, b, LAMBDA x, y : <<x[1] + y[1], x[2] + y[2], x[3] + y[3]>>)

vsub(a, b) == With2(a, b, LAMBDA x, y : <<x[1] - y[1], x[2] - y[2], x[3] - y[3]>>)

\* v * s, s a float
vscale(v, s) == With2(v, s, LAMBDA x, k : <<fmul(x[1], k), fmul(x[2], k), fmul(x[3], k)>>)

dot(a, b) ==
    With2(a, b, LAMBDA x, y : fmul(x[1], y[1]) + fmul(x[2], y[2]) + fmul(x[3], y[3]))

length(v) == With(v, LAMBDA x : sqrt(dot(x, x)))

normalize(v) ==
    With(v, LAMBDA x : With(length(x), LAMBDA l : <<fdiv(x[1], l), fdiv(x[2], l), fdiv(x[3], l)>>))

(* sin and cos on the grid: reduction to [-pi/2, pi/2], then the series to x^9 *)

PI == MulDiv(3141593, Scale, 1000000)

sinSeries(x) ==
    With2(x, fmul(x, x), LAMBDA y, y2 :
        With(fmul(y2, y), LAMBDA y3 :
            With(fmul(y3, y2), LAMBDA y5 :
                With(fmul(y5, y2), LAMBDA y7 :
                    y - y3 \div 6 + y5 \div 120 - y7 \div 5040
                      + fmul(y7, y2) \div 362880))))

sin(x) ==
    With2(x, PI, LAMBDA x0, pi :
        With(((x0 + pi) % (2 * pi)) - pi, LAMBDA y :
            IF 2 * y > pi THEN sinSeries(pi - y)
            ELSE IF 2 * y < -pi THEN sinSeries(-pi - y)
            ELSE sinSeries(y)))

cos(x) == sin(x + PI \div 2)

---------------------------------------------------------------------------
(* Scene Object Encoder: the forEach of Sensor.updateSceneData *)

propsPerObject == 12

\* obj.f || 0 for an optional field f of an object of collectSceneObjects
orZero(obj, f) == IF f \in DOMAIN obj THEN obj[f] ELSE 0

\* A base that counts texels, not floats: i * propsPerObject
baseInTexels(i) == i * propsPerObject

\* base of object i (0-based) in textureData
base(i) == i * propsPerObject * 4

\* The cells the forEach body assigns for one object: offset from base |-> value.
objectWrites(obj) ==
    IF obj.type = 2 /\ "glass" \in DOMAIN obj
    THEN [off \in (0..14) \ {11} |->
             CASE off = 0 -> obj.position[1]
               [] off = 1 -> obj.position[2]
               [] off = 2 -> obj.position[3]
               [] off = 3 -> F(obj.type)
               [] off = 4 -> obj.radius
               [] off = 5 -> orZero(obj, "thickness")
               [] off = 6 -> orZero(obj, "frontRadius")
               [] off = 7 -> orZero(obj, "backRadius")
               [] off = 8 -> obj.glass.dispersion.B1
               [] off = 9 -> obj.glass.dispersion.B2
               [] off = 10 -> obj.glass.dispersion.B3
               [] off = 12 -> obj.glass.dispersion.C1
               [] off = 13 -> obj.glass.dispersion.C2
               [] off = 14 -> obj.glass.dispersion.C3]
    ELSE [off \in 0..7 |->
             CASE off = 0 -> obj.position[1]
               [] off = 1 -> obj.position[2]
               [] off = 2 -> obj.position[3]
               [] off = 3 -> F(obj.type)
               [] off = 4 -> obj.radius
               [] off = 5 -> orZero(obj, "thickness")
               [] off = 6 -> orZero(obj, "frontRadius")
               [] off = 7 -> orZero(obj, "backRadius")]

\* new Float32Array(numObjects * propsPerObject * 4), then the forEach: cells
\* start at zero, object i writes from base(i), a later write overwrites.
textureData(objects) ==
    With([i \in 1..Len(objects) |-> objectWrites(objects[i])], LAMBDA w :
        [k \in 0..(Len(objects) * propsPerObject * 4 - 1) |->
            With({i \in 0..(Len(objects) - 1) : (k - base(i)) \in DOMAIN w[i + 1]},
                 LAMBDA writers :
                    IF writers = {} THEN 0
                    ELSE With(CHOOSE i \in writers : \A j \in writers : j <= i,
                              LAMBDA last : w[last + 1][k - base(last)]))])

\* new RawTexture(textureData, propsPerObject, numObjects, RGBA, ..., NEAREST, FLOAT)
RawTexture(data, width, height) == [data |-> data, width |-> width, height |-> height]

NoTexture == [data |-> <<>>, width |-> 0, height |-> 0]

---------------------------------------------------------------------------
(* The fragment shader raytraceFS *)

PROPS_PER_OBJECT == 12

\* texture2D with NEAREST sampling: the texel that contains (u, v), as a vec4
texture2D(tex, u, v) ==
    With((min(max((v * tex.height) \div Scale, 0), tex.height - 1) * tex.width
            + min(max((u * tex.width) \div Scale, 0), tex.width - 1)) * 4,
         LAMBDA at : <<tex.data[at], tex.data[at + 1], tex.data[at + 2], tex.data[at + 3]>>)

\* U: the uniforms, [uNumObjects, uSceneDataTex, uSensorPosition, uSensorForward, ...]
fetchObjectRow(U, objIndex, row) ==
    texture2D(U.uSceneDataTex,
              fdiv(F(row) + Scale \div 2, F(PROPS_PER_OBJECT)),
              fdiv(F(objIndex) + Scale \div 2, F(U.uNumObjects)))

xyz(v4) == With(v4, LAMBDA r : <<r[1], r[2], r[3]>>)

\* int(x)
int(x) == With(x, LAMBDA y : sign(y) * (abs(y) \div Scale))

\* A float that may be no number: [kind |-> "num", v |-> x], or infinite, or NaN.
Num(x) == [kind |-> "num", v |-> x]

\* What an operation with an undefined result (x / 0.0, sqrt of a negative)
\* can leave behind.
UndefinedFloat == {[kind |-> "inf", v |-> 0], [kind |-> "nan", v |-> 0]}

\* l2 of sellmeier
sellmeierL2(lambda) == fdiv(fmul(lambda, lambda), fmul(F(1000), F(1000)))

\* sellmeier.  There is no check of l2 - C or of n2 in the code: a pole
\* divides by zero and a negative n2 goes to sqrt; undef, one of
\* UndefinedFloat, is what the GPU leaves behind there.
sellmeier(lambda, B, C, undef) ==
    With3(sellmeierL2(lambda), B, C, LAMBDA l2, b, c :
        IF \E i \in 1..3 : l2 - c[i] = 0 THEN undef
        ELSE With(F(1) + fdiv(fmul(b[1], l2), l2 - c[1])
                       + fdiv(fmul(b[2], l2), l2 - c[2])
                       + fdiv(fmul(b[3], l2), l2 - c[3]),
                  LAMBDA n2 : IF n2 < 0 THEN undef ELSE Num(sqrt(n2))))

\* customRefract with k linear in eta: 1.0 - eta * (1.0 - dotNI * dotNI)
customRefractLinearEta(I, N, eta) ==
    With(dot(N, I), LAMBDA dotNI :
        With(F(1) - fmul(eta, F(1) - fmul(dotNI, dotNI)), LAMBDA k :
            IF k < 0 THEN vec3(0, 0, 0)
            ELSE vsub(vscale(I, eta), vscale(N, fmul(eta, dotNI) + sqrt(k)))))

customRefract(I, N, eta) ==
    With(dot(N, I), LAMBDA dotNI :
        With(F(1) - fmul(fmul(eta, eta), F(1) - fmul(dotNI, dotNI)), LAMBDA k :
            IF k < 0 THEN vec3(0, 0, 0)
            ELSE vsub(vscale(I, eta), vscale(N, fmul(eta, dotNI) + sqrt(k)))))

Ray(origin, dir) == [origin |-> origin, dir |-> dir]

intersectSphere(ray, center, radius) ==
    With2(ray, vsub(ray.origin, center), LAMBDA r, oc :
        With3(dot(r.dir, r.dir), 2 * dot(oc, r.dir), dot(oc, oc) - fmul(radius, radius),
              LAMBDA a, b, c :
                  With(fmul(b, b) - fmul(4 * a, c), LAMBDA discriminant :
                      IF discriminant < 0 THEN <<F(-1), F(-1)>>
                      ELSE With(sqrt(discriminant), LAMBDA sqrt_disc :
                               <<fdiv(-b - sqrt_disc, 2 * a),
                                 fdiv(-b + sqrt_disc, 2 * a)>>))))

\* customRefract with an eta that may be no number.  eta = NaN makes k NaN,
\* k < 0.0 false and the result NaN; eta infinite makes k minus infinity
\* (no transmission) or, where 1 - dotNI^2 is not positive, NaN.
customRefractX(I, N, eta) ==
    With3(I, N, eta, LAMBDA i, n, e :
        CASE e.kind = "num" -> [kind |-> "vec", v |-> customRefract(i, n, e.v)]
          [] e.kind = "inf" ->
                With(dot(n, i), LAMBDA dotNI :
                    IF F(1) - fmul(dotNI, dotNI) > 0
                    THEN [kind |-> "vec", v |-> zero3]
                    ELSE [kind |-> "nan", v |-> zero3])
          [] e.kind = "nan" -> [kind |-> "nan", v |-> zero3])

\* 1.0 / n
recip(n) ==
    With(n, LAMBDA x :
        CASE x.kind = "num" -> Num(fdiv(F(1), x.v))
          [] x.kind = "inf" -> Num(0)
          [] x.kind = "nan" -> x)

\* dot(d, d) > 0.0: false for a NaN vector
transmitted(d) == With(d, LAMBDA x : x.kind = "vec" /\ dot(x.v, x.v) > 0)

lambda_d == 587560

epsilon == Scale \div 1000

farLimit == F(100000)

background == vec3(Scale \div 10, Scale \div 10, (15 * Scale) \div 100)

hitColor == vec3(Scale, Scale \div 5, Scale \div 5)

\* The two spheres of a lens record: r0.xyz and r1 = (aperture, thickness, r_front, r_back)
lensSpheres(lensPos, r1) ==
    With2(lensPos, r1, LAMBDA p, r :
        With2(p[3] - fdiv(r[2], F(2)), p[3] + fdiv(r[2], F(2)),
              LAMBDA front_vtx_z, back_vtx_z :
                  [center_front |-> vec3(p[1], p[2], front_vtx_z - r[3]),
                   center_back  |-> vec3(p[1], p[2], back_vtx_z - r[4]),
                   r_front |-> r[3], r_back |-> r[4]]))

\* The lens branch of the first loop: t_front, t_back, t_enter, t_exit_vol, t_hit
lensBody(ray, lensPos, r1) ==
    With(lensSpheres(lensPos, r1), LAMBDA g :
        With2(intersectSphere(ray, g.center_front, abs(g.r_front)),
              intersectSphere(ray, g.center_back, abs(g.r_back)),
              LAMBDA t_front, t_back :
                  With2(max(t_front[1], t_back[1]), min(t_front[2], t_back[2]),
                        LAMBDA t_enter, t_exit_vol :
                            [t_front |-> t_front, t_back |-> t_back, t_enter |-> t_enter,
                             t_exit_vol |-> t_exit_vol,
                             valid |-> (t_enter < t_exit_vol /\ t_exit_vol > epsilon),
                             t_hit |-> IF t_enter > epsilon THEN t_enter ELSE t_exit_vol])))

\* One iteration of "1. Find the first object the ray hits"
nearestStep(U, ray, i, st) ==
    With(fetchObjectRow(U, i, 0), LAMBDA r0 :
        IF int(r0[4]) = 1
        THEN With(intersectSphere(ray, xyz(r0), fetchObjectRow(U, i, 1)[1]), LAMBDA t :
                 IF t[1] > epsilon /\ t[1] < st.closestT
                 THEN [closestT |-> t[1], hitObjIndex |-> i, hitIsLens |-> FALSE]
                 ELSE st)
        ELSE IF int(r0[4]) = 2
        THEN With(lensBody(ray, xyz(r0), fetchObjectRow(U, i, 1)), LAMBDA body :
                 IF body.valid /\ body.t_hit < st.closestT
                 THEN [closestT |-> body.t_hit, hitObjIndex |-> i, hitIsLens |-> TRUE]
                 ELSE st)
        ELSE st)

RECURSIVE nearestLoop(_, _, _, _)
nearestLoop(U, ray, i, st) ==
    IF i >= U.uNumObjects THEN st
    ELSE With2(i, nearestStep(U, ray, i, st), LAMBDA j, s : nearestLoop(U, ray, j + 1, s))

nearestHit(U, ray) ==
    nearestLoop(U, ray, 0, [closestT |-> farLimit, hitObjIndex |-> -1, hitIsLens |-> FALSE])

\* "d) Trace final ray": the spheres the loop intersects until its break, and
\* the one that ends it (-1: none)
secondPass(U, final_ray, hitObjIndex) ==
    With({k \in 0..(U.uNumObjects - 1) :
             k # hitObjIndex /\ int(fetchObjectRow(U, k, 0)[4]) = 1}, LAMBDA cand :
        With({k \in cand :
                 intersectSphere(final_ray, xyz(fetchObjectRow(U, k, 0)),
                                 fetchObjectRow(U, k, 1)[1])[1] > epsilon}, LAMBDA hits :
            With(IF hits = {} THEN -1 ELSE CHOOSE k \in hits : \A j \in hits : k <= j,
                 LAMBDA first :
                     [tested |-> {k \in cand : first = -1 \/ k <= first}, hit |-> first])))

\* The result of traceRay with the values it computed on the way
traceResult(color, branch, st) ==
    [color |-> color, branch |-> branch, hitObjIndex |-> st.hitObjIndex,
     hitIsLens |-> st.hitIsLens, closestT |-> st.closestT,
     n_glass |-> Num(0), refractions |-> 0, hitPos |-> zero3,
     isEnteringFront |-> FALSE, normal_in |-> zero3,
     dir_internal |-> [kind |-> "vec", v |-> zero3], t_exit |-> 0, exitPos |-> zero3,
     normal_out |-> zero3, final_dir |-> [kind |-> "vec", v |-> zero3],
     tested |-> {}, secondHit |-> -1]

\* "a) Determine entry surface and refract"
lensEntry(U, ray, st, n_glass) ==
    With2(vadd(ray.origin, vscale(ray.dir, st.closestT)),
          lensSpheres(xyz(fetchObjectRow(U, st.hitObjIndex, 0)),
                      fetchObjectRow(U, st.hitObjIndex, 1)),
          LAMBDA hitPos, g :
              With(intersectSphere(ray, g.center_front, abs(g.r_front))[1]
                     > intersectSphere(ray, g.center_back, abs(g.r_back))[1],
                   LAMBDA isEnteringFront :
                       With(normalize(vsub(hitPos, IF isEnteringFront THEN g.center_front
                                                   ELSE g.center_back)),
                            LAMBDA normal_in :
                                [hitPos |-> hitPos, isEnteringFront |-> isEnteringFront,
                                 center_out |-> IF isEnteringFront THEN g.center_back
                                                ELSE g.center_front,
                                 radius_out |-> abs(IF isEnteringFront THEN g.r_back
                                                    ELSE g.r_front),
                                 normal_in |-> normal_in,
                                 dir_internal |->
                                     customRefractX(ray.dir, normal_in, recip(n_glass))])))

\* "b) Find exit point" and "c) Refract on exit", for the entry record in
lensExit(in, n_glass) ==
    With(intersectSphere(Ray(in.hitPos, in.dir_internal.v), in.center_out,
                         in.radius_out)[2], LAMBDA t_exit :
        With(vadd(in.hitPos, vscale(in.dir_internal.v, t_exit)), LAMBDA exitPos :
            With(normalize(vsub(exitPos, in.center_out)), LAMBDA normal_out :
                [t_exit |-> t_exit, exitPos |-> exitPos, normal_out |-> normal_out,
                 final_dir |-> customRefractX(in.dir_internal.v, normal_out, n_glass)])))

\* final_dir * 0.5 + 0.5
directionColor(final_dir) ==
    vadd(vscale(final_dir, Scale \div 2), vec3(Scale \div 2, Scale \div 2, Scale \div 2))

\* lensFinal without the test of finalColor.r: the direction colour is
\* assigned after every second pass
lensFinalUnguarded(U, st, exit, out) ==
    With(secondPass(U, Ray(vadd(out.exitPos, vscale(out.final_dir.v, Scale \div 100)),
                           out.final_dir.v), st.hitObjIndex), LAMBDA pass2 :
        [exit EXCEPT !.branch = IF pass2.hit # -1 THEN "through_hit" ELSE "through_dir",
                     !.color = directionColor(out.final_dir.v),
                     !.tested = pass2.tested, !.secondHit = pass2.hit])

\* "d) Trace final ray" and the colour of the pixel, for the final direction:
\* finalColor is the background until the loop finds a hit, and the
\* direction colour replaces it while finalColor.r < 0.5
lensFinal(U, st, exit, out) ==
    With(secondPass(U, Ray(vadd(out.exitPos, vscale(out.final_dir.v, Scale \div 100)),
                           out.final_dir.v), st.hitObjIndex), LAMBDA pass2 :
        With(IF pass2.hit # -1 THEN hitColor ELSE exit.color, LAMBDA finalColor :
            [exit EXCEPT !.branch = IF pass2.hit # -1 THEN "through_hit" ELSE "through_dir",
                         !.color = IF finalColor[1] < Scale \div 2
                                   THEN directionColor(out.final_dir.v)
                                   ELSE finalColor,
                         !.tested = pass2.tested, !.secondHit = pass2.hit]))

\* "2. Process the hit", lens branch inside the aperture, for one value
\* n_glass of sellmeier
lensTransport(U, ray, st, n_glass) ==
    With(lensEntry(U, ray, st, n_glass), LAMBDA in :
        With([traceResult(background, "entry_tir", st) EXCEPT
                 !.n_glass = n_glass, !.refractions = 1, !.hitPos = in.hitPos,
                 !.isEnteringFront = in.isEnteringFront, !.normal_in = in.normal_in,
                 !.dir_internal = in.dir_internal], LAMBDA entry :
            IF ~transmitted(in.dir_internal) THEN entry
            ELSE With(lensExit(in, n_glass), LAMBDA out :
                     IF ~(out.t_exit > epsilon)
                     THEN [entry EXCEPT !.branch = "no_exit", !.t_exit = out.t_exit]
                     ELSE With([entry EXCEPT !.t_exit = out.t_exit,
                                    !.exitPos = out.exitPos, !.normal_out = out.normal_out,
                                    !.final_dir = out.final_dir, !.refractions = 2,
                                    !.branch = "exit_tir"], LAMBDA exit :
                              IF ~transmitted(out.final_dir) THEN exit
                              ELSE lensFinal(U, st, exit, out)))))

\* The aperture test of the lens branch
insideAperture(U, ray, st) ==
    With3(vadd(ray.origin, vscale(ray.dir, st.closestT)),
          fetchObjectRow(U, st.hitObjIndex, 0),
          fetchObjectRow(U, st.hitObjIndex, 1)[1],
          LAMBDA hitPos, lensPos, lensApertureRadius :
              With2(hitPos[1] - lensPos[1], hitPos[2] - lensPos[2], LAMBDA dx, dy :
                  fmul(dx, dx) + fmul(dy, dy)
                      < fmul(lensApertureRadius, lensApertureRadius)))

\* The lens branch inside the aperture: n_glass, then the transport
lensRefraction(U, ray, st, undef) ==
    With(sellmeier(lambda_d, xyz(fetchObjectRow(U, st.hitObjIndex, 2)),
                   xyz(fetchObjectRow(U, st.hitObjIndex, 3)), undef),
         LAMBDA n_glass : lensTransport(U, ray, st, n_glass))

traceRay(U, origin, direction, undef) ==
    With(Ray(origin, direction), LAMBDA ray :
        With(nearestHit(U, ray), LAMBDA st :
            IF st.hitObjIndex = -1 THEN traceResult(background, "miss", st)
            ELSE IF ~st.hitIsLens THEN traceResult(hitColor, "sphere", st)
            ELSE IF ~insideAperture(U, ray, st) THEN traceResult(background, "aperture", st)
            ELSE lensRefraction(U, ray, st, undef)))

directionCount == 500

\* direction i of the fan of traceRays
sampleDirection(direction, i) ==
    With3(MulDiv(F(i), 62832, 1000000), MulDiv(F(i), 31416, 1000000), Scale \div 10,
          LAMBDA theta, phi, r :
              normalize(vadd(vec3(fmul(fmul(r, cos(theta)), sin(phi)),
                                  fmul(fmul(r, sin(theta)), sin(phi)),
                                  fmul(r, cos(phi))),
                             direction)))

\* Component c of f[lo] + ... + f[hi], summed by halves (grid addition is
\* exact, so the order is immaterial)
RECURSIVE sumRange(_, _, _, _)
sumRange(f, c, lo, hi) ==
    IF lo = hi THEN f[lo][c]
    ELSE sumRange(f, c, lo, (lo + hi) \div 2) + sumRange(f, c, (lo + hi) \div 2 + 1, hi)

\* The loop of traceRays: finalColor += traceRay(origin, randomDir)
sumRays(U, origin, direction, undef) ==
    With([i \in 0..(directionCount - 1) |->
              traceRay(U, origin, sampleDirection(direction, i), undef).color],
         LAMBDA colors :
             vec3(sumRange(colors, 1, 0, directionCount - 1),
                  sumRange(colors, 2, 0, directionCount - 1),
                  sumRange(colors, 3, 0, directionCount - 1)))

\* One iteration of the loop of traceRays with a fan that shifts with the
\* origin of the pixel: randomDir = normalize(randomDir + direction + origin * 0.001)
sampleRayByOrigin(U, origin, direction, i, finalColor, undef) ==
    With(normalize(vadd(sampleDirection(direction, i),
                        vscale(origin, Scale \div 1000))), LAMBDA randomDir :
        [randomDir |-> randomDir,
         finalColor |-> vadd(finalColor, traceRay(U, origin, randomDir, undef).color)])

\* One iteration of the loop of traceRays: randomDir of sample i, and
\* finalColor += traceRay(origin, randomDir)
sampleRay(U, origin, direction, i, finalColor, undef) ==
    With(sampleDirection(direction, i), LAMBDA randomDir :
        [randomDir |-> randomDir,
         finalColor |-> vadd(finalColor, traceRay(U, origin, randomDir, undef).color)])

\* finalColor /= float(directionCount)
averageColor(finalColor) ==
    vec3(fdiv(finalColor[1], F(directionCount)), fdiv(finalColor[2], F(directionCount)),
         fdiv(finalColor[3], F(directionCount)))

\* traceRays without its test of uNumObjects
traceRaysAlways(U, origin, centerDirection, undef) ==
    With3(U, origin, normalize(centerDirection), LAMBDA u, o, direction :
        With(sumRays(u, o, direction, undef), LAMBDA sum :
            [color |-> vec3(fdiv(sum[1], F(directionCount)),
                            fdiv(sum[2], F(directionCount)),
                            fdiv(sum[3], F(directionCount))),
             rays |-> directionCount]))

\* traceRays: the colour, and the number of rays traced for it
traceRays(U, origin, centerDirection, undef) ==
    IF U.uNumObjects = 0 THEN [color |-> background, rays |-> 0]
    ELSE With3(U, origin, normalize(centerDirection), LAMBDA u, o, direction :
             With(sumRays(u, o, direction, undef), LAMBDA sum :
                 [color |-> vec3(fdiv(sum[1], F(directionCount)),
                                 fdiv(sum[2], F(directionCount)),
                                 fdiv(sum[3], F(directionCount))),
                  rays |-> directionCount]))

\* main up to its origin: the centre of the pixel of vUV = <<u, v>> on the
\* sensor, added to uSensorPosition
pixelOrigin(U, vUV) ==
    With2(F(fmul(vUV[1], U.uPixelCount[1]) \div Scale),
          F(fmul(vUV[2], U.uPixelCount[2]) \div Scale), LAMBDA px, py :
        With2(fdiv(px + Scale \div 2, U.uPixelCount[1]),
              fdiv(py + Scale \div 2, U.uPixelCount[2]), LAMBDA nx, ny :
            vadd(U.uSensorPosition,
                 vec3(fmul(nx - Scale \div 2, U.uSensorSize[1]),
                      fmul(ny - Scale \div 2, U.uSensorSize[2]), 0))))

\* main of the fragment shader at texture coordinate vUV = <<u, v>>
shaderMain(U, vUV, undef) ==
    With2(pixelOrigin(U, vUV), normalize(U.uSensorForward), LAMBDA origin, direction :
        With(traceRays(U, origin, direction, undef), LAMBDA traced :
            [origin |-> origin, direction |-> direction,
             color |-> traced.color, rays |-> traced.rays]))

---------------------------------------------------------------------------
(* Scene objects and rays the kernel is applied to *)

MaxObjects == 2

\* glass.dispersion of main's lens (Schott N-BK7), and two coefficient sets
\* on which the Sellmeier formula is undefined at the d-line: l2 = C1, n2 < 0
NBK7 == [dispersion |-> [B1 |-> 1040, B2 |-> 232, B3 |-> 1010,
                         C1 |-> 6, C2 |-> 20, C3 |-> 103561]]

GlassPole == [dispersion |-> [NBK7.dispersion EXCEPT !.C1 = sellmeierL2(lambda_d)]]

GlassNegative == [dispersion |-> [NBK7.dispersion EXCEPT !.C1 = F(2) \div 5]]

\* What collectSceneObjects pushes for a sphere mesh and for a lens
SphereObject(pos, radius) == [position |-> pos, type |-> 1, radius |-> radius]

LensObject(pos, diameter, thickness, frontRadius, backRadius, glass) ==
    [position |-> pos, type |-> 2, radius |-> diameter \div 2, thickness |-> thickness,
     frontRadius |-> frontRadius, backRadius |-> backRadius, glass |-> glass]

\* main's sphere (diameter 50 at z = -160) and main's lens
MainSphere == SphereObject(vec3(0, 0, F(-160)), F(25))

MainLens == LensObject(zero3, F(50), F(10), F(35), F(-35), NBK7)

\* The same lens with the curvature signs exchanged, and with a narrow aperture
FlippedLens == LensObject(zero3, F(50), F(10), F(-35), F(35), NBK7)

NarrowLens == LensObject(zero3, F(20), F(10), F(-35), F(35), NBK7)

PoleLens == LensObject(zero3, F(50), F(10), F(-35), F(35), GlassPole)

NegativeLens == LensObject(zero3, F(50), F(10), F(-35), F(35), GlassNegative)

\* A sphere between the sensor and the lens, and one around the sensor
NearSphere == SphereObject(vec3(0, 0, F(30)), F(10))

AroundSphere == SphereObject(vec3(0, 0, F(50)), F(25))

\* A second lens, behind the sensor on the axis
BehindLens == LensObject(vec3(0, 0, F(80)), F(50), F(10), F(-35), F(35), NBK7)

Catalogue == <<MainSphere, NearSphere, AroundSphere,
               MainLens, FlippedLens, NarrowLens, PoleLens, NegativeLens>>

\* Object lists of up to n objects of the catalogue cat
RECURSIVE ListsOf(_, _)
ListsOf(cat, n) ==
    IF n = 0 THEN {<<>>}
    ELSE With(ListsOf(cat, n - 1), LAMBDA shorter :
             shorter \cup
             {Append(l, cat[c]) : l \in {m \in shorter : Len(m) = n - 1}, c \in DOMAIN cat})

Distinct(l) == \A i, j \in DOMAIN l : i # j => l[i] # l[j]

OneLens(l) == Cardinality({i \in DOMAIN l : l[i].type = 2}) <= 1

\* Lists of 0..MaxObjects distinct catalogue objects, at most one lens (the
\* catalogue's lenses share one position)
ObjectLists == {l \in ListsOf(Catalogue, MaxObjects) : Distinct(l) /\ OneLens(l)}

\* Scenes of two lenses at different positions
TwoLensLists == {<<FlippedLens, BehindLens>>, <<BehindLens, FlippedLens>>}

\* Ray origins: on the sensor (z = 55, centre of Sensor.update's sweep),
\* beside the lens and inside the lens body; unit directions towards -Z
Origins == {vec3(0, 0, F(55)), vec3(F(5), 0, F(55)), vec3(F(15), 0, F(55)),
            vec3(F(-24), 0, F(20)), vec3(0, 0, 0)}

Directions == {vec3(0, 0, -Scale), vec3((28 * Scale) \div 100, 0, (-96 * Scale) \div 100),
               vec3((-6 * Scale) \div 10, 0, (-8 * Scale) \div 10),
               vec3((6 * Scale) \div 10, 0, (-8 * Scale) \div 10)}

---------------------------------------------------------------------------
(* The program: main, Sphere, Lens, Sensor *)

MaxFrames == 2

\* engine.getDeltaTime(), ms
Deltas == {F(16), F(1000)}

SphereEntity(diameter, position) ==
    [kind |-> "Sphere", diameter |-> diameter, position |-> position]

LensEntity(position) == [kind |-> "Lens", diameter |-> F(50), position |-> position]

\* sensorConfig of main
SensorEntity ==
    [kind |-> "Sensor", pixelCount |-> <<F(320), F(240)>>, size |-> <<F(64), F(48)>>,
     position |-> zero3, rotationY |-> 0]

\* main's entity list, and lists with fewer or more optical objects
EntityLists ==
    {<<SphereEntity(F(50), vec3(0, 0, F(-160))), LensEntity(zero3), SensorEntity>>,
     <<SphereEntity(F(50), vec3(0, 0, F(-160))), SensorEntity>>,
     <<SensorEntity, SphereEntity(F(50), vec3(0, 0, F(-160)))>>,
     <<SphereEntity(F(50), vec3(0, 0, F(-160))), SphereEntity(F(20), vec3(F(10), 0, F(-40))),
       SensorEntity>>,
     <<LensEntity(zero3), SensorEntity>>,
     <<SensorEntity>>}

NoMetadata == [type |-> "none", lensObject |-> FALSE]

\* boundingSphere.radius of a mesh of MeshBuilder.CreateSphere: half the
\* diagonal of its bounding box
boundingRadius(diameter) == fmul(diameter \div 2, sqrt(F(3)))

\* The mesh an entity's addToScene creates; owner: the entity's index
meshOf(e, owner) ==
    CASE e.kind = "Sphere" ->
            [name |-> "sphere", owner |-> owner, position |-> e.position, rotationY |-> 0,
             radius |-> boundingRadius(e.diameter), metadata |-> NoMetadata]
      [] e.kind = "Lens" ->
            [name |-> "lens", owner |-> owner, position |-> e.position, rotationY |-> 0,
             radius |-> 0, metadata |-> [type |-> "Lens", lensObject |-> FALSE]]
      [] e.kind = "Sensor" ->
            [name |-> "sensorPlane", owner |-> owner, position |-> e.position,
             rotationY |-> e.rotationY, radius |-> 0, metadata |-> NoMetadata]

\* m.name.includes("sphere")
nameIncludesSphere(name) == name = "sphere"

\* The meshes of ms that satisfy the first test of collectSceneObjects
lensWithObject(ms) ==
    {i \in DOMAIN ms : ms[i].metadata.type = "Lens" /\ ms[i].metadata.lensObject}

RECURSIVE collectSpheres(_, _)
collectSpheres(ms, i) ==
    IF i > Len(ms) THEN <<>>
    ELSE IF i \notin lensWithObject(ms) /\ nameIncludesSphere(ms[i].name)
    THEN <<SphereObject(ms[i].position, ms[i].radius)>> \o collectSpheres(ms, i + 1)
    ELSE collectSpheres(ms, i + 1)

\* Sensor.collectSceneObjects.  The lens branch calls lens.getMesh(), which
\* class Lens does not define: the call throws a TypeError.
collectSceneObjects(ms) ==
    IF lensWithObject(ms) # {}
    THEN [threw |-> TRUE, out |-> <<>>]
    ELSE [threw |-> FALSE, out |-> collectSpheres(ms, 1)]

\* Sensor.updateSceneData after collectSceneObjects: the uniforms it leaves
encodeObjects(objects, U) ==
    With2(objects, U, LAMBDA objs, u :
        With(Len(objs), LAMBDA numObjects :
            IF numObjects = 0 THEN [u EXCEPT !.uNumObjects = 0]
            ELSE [u EXCEPT
                     !.uSceneDataTex = RawTexture(textureData(objs), propsPerObject, numObjects),
                     !.uNumObjects = numObjects]))

\* Sensor.updateSceneData: the uniforms it leaves, or the throw it lets through
updateSceneData(ms, U) ==
    With(collectSceneObjects(ms), LAMBDA collected :
        IF collected.threw THEN [threw |-> TRUE, uniforms |-> U]
        ELSE [threw |-> FALSE, uniforms |-> encodeObjects(collected.out, U)])

\* The uniforms of a fresh ShaderMaterial
FreshUniforms ==
    [uNumObjects |-> 0, uSceneDataTex |-> NoTexture, uSensorPosition |-> zero3,
     uSensorForward |-> zero3, uSensorSize |-> <<0, 0>>, uPixelCount |-> <<0, 0>>]

\* entities.forEach((e) => e.addToScene(scene)), from entity i on
RECURSIVE addToScene(_, _, _, _)
addToScene(es, i, ms, U) ==
    IF i > Len(es) THEN [meshes |-> ms, uniforms |-> U]
    ELSE With3(i, Append(ms, meshOf(es[i], i)), U, LAMBDA j, created, u :
             IF es[j].kind = "Sensor"
             THEN With(updateSceneData(created,
                           [u EXCEPT !.uSensorSize = es[j].size,
                                     !.uPixelCount = es[j].pixelCount]).uniforms,
                       LAMBDA set : addToScene(es, j + 1, created, set))
             ELSE addToScene(es, j + 1, created, u))

NoScan == [frame |-> 0, uniforms |-> FreshUniforms, meshes |-> <<>>]

Idle == [at |-> "idle", i |-> 0, delta |-> 0]

NoCall == [done |-> FALSE]

Init ==
    /\ entities \in EntityLists
    /\ \E built \in {addToScene(entities, 1, <<>>, FreshUniforms)} :
           /\ meshes = built.meshes
           /\ uniforms = built.uniforms
    /\ plane = [position |-> SensorEntity.position, rotationY |-> SensorEntity.rotationY]
    /\ hookPending = TRUE
    /\ pc = Idle
    /\ frame = 0
    /\ accumTime = 0
    /\ scan = NoScan
    /\ fn = "none"
    /\ args = <<>>
    /\ ret = NoCall

\* The render-loop callback starts: const delta = engine.getDeltaTime()
BeginFrame ==
    /\ pc.at = "idle"
    /\ frame < MaxFrames
    /\ \E delta \in Deltas : pc' = [at |-> "update", i |-> 1, delta |-> delta]
    /\ frame' = frame + 1
    /\ UNCHANGED <<entities, meshes, hookPending, accumTime, plane, uniforms, scan>>
    /\ UNCHANGED kernelVars

\* after entity pc.i: the next entity's update, or scene.render()
afterUpdate == IF pc.i = Len(entities) THEN [pc EXCEPT !.at = "render"]
               ELSE [pc EXCEPT !.i = pc.i + 1]

meshIndex(owner) == CHOOSE k \in DOMAIN meshes : meshes[k].owner = owner

\* Sphere.update: this.sphere.rotation.y += deltaTime * 0.001
SphereUpdate ==
    /\ pc.at = "update"
    /\ entities[pc.i].kind = "Sphere"
    /\ meshes' = [meshes EXCEPT ![meshIndex(pc.i)].rotationY = @ + pc.delta \div 1000]
    /\ pc' = afterUpdate
    /\ UNCHANGED <<entities, hookPending, frame, accumTime, plane, uniforms, scan>>
    /\ UNCHANGED kernelVars

\* Lens.update: no dynamic updates
LensUpdate ==
    /\ pc.at = "update"
    /\ entities[pc.i].kind = "Lens"
    /\ pc' = afterUpdate
    /\ UNCHANGED <<entities, meshes, hookPending, frame, accumTime, plane, uniforms, scan>>
    /\ UNCHANGED kernelVars

\* Sensor.update up to its call of updateSceneData: the pose of the plane
sensorPose(time) ==
    With3(time, F(50), F(60), LAMBDA tm, minZ, maxZ :
        With(minZ + (maxZ - minZ) \div 2, LAMBDA centerZ :
            [z |-> centerZ + fmul(maxZ - centerZ, sin(MulDiv(tm, 5, 10000))),
             rotationY |-> MulDiv(sin(MulDiv(tm, PI, F(2000))), PI, F(18))]))

\* this._plane.getDirection(Vector3.Backward()): (0, 0, -1) turned by rotation.y
planeForward(rotationY) == vec3(-sin(rotationY), 0, -cos(rotationY))

\* Sensor.update
SensorUpdate ==
    /\ pc.at = "update"
    /\ entities[pc.i].kind = "Sensor"
    /\ \E pose \in {sensorPose(accumTime + pc.delta)} :
       \E moved \in {[position |-> vec3(plane.position[1], plane.position[2], pose.z),
                      rotationY |-> pose.rotationY]} :
       \E moving \in {[meshes EXCEPT ![meshIndex(pc.i)].position = moved.position,
                                     ![meshIndex(pc.i)].rotationY = moved.rotationY]} :
       \E encoded \in {updateSceneData(moving,
                           [uniforms EXCEPT
                               !.uSensorPosition = moved.position,
                               !.uSensorForward = planeForward(moved.rotationY)])} :
           /\ accumTime' = accumTime + pc.delta
           /\ plane' = moved
           /\ meshes' = moving
           /\ uniforms' = encoded.uniforms
           /\ pc' = IF encoded.threw THEN [pc EXCEPT !.at = "crashed"] ELSE afterUpdate
    /\ UNCHANGED <<entities, hookPending, frame, scan>>
    /\ UNCHANGED kernelVars

\* main's scene.onAfterRenderObservable.addOnce callback
lensObjectHook(ms) ==
    [k \in DOMAIN ms |->
        IF ms[k].metadata.type = "Lens"
        THEN [ms[k] EXCEPT !.metadata.lensObject = TRUE]
        ELSE ms[k]]

\* scene.render(): the shader runs on the uniforms as they are (the image is
\* shaderMain over scan.uniforms), then the after-render observers
Render ==
    /\ pc.at = "render"
    /\ scan' = [frame |-> frame, uniforms |-> uniforms, meshes |-> meshes]
    /\ meshes' = IF hookPending THEN lensObjectHook(meshes) ELSE meshes
    /\ hookPending' = FALSE
    /\ pc' = Idle
    /\ UNCHANGED <<entities, frame, accumTime, plane, uniforms>>
    /\ UNCHANGED kernelVars

Next == BeginFrame \/ SphereUpdate \/ LensUpdate \/ SensorUpdate \/ Render

Spec == Init /\ [][Next]_vars

---------------------------------------------------------------------------
(* The kernel on its own: one call of a function of the shader or of the  *)
(* encoder on arguments drawn from the sets above, the render loop at rest *)

LoopAtRest ==
    /\ entities = <<>>
    /\ meshes = <<>>
    /\ hookPending = FALSE
    /\ pc = Idle
    /\ frame = 0
    /\ accumTime = 0
    /\ plane = [position |-> zero3, rotationY |-> 0]
    /\ uniforms = FreshUniforms
    /\ scan = NoScan

(* traceRay(origin, direction) over the uniforms of an encoded object list *)

TraceInputs ==
    {[objects |-> l, U |-> encodeObjects(l, FreshUniforms), origin |-> o, direction |-> d] :
        l \in ObjectLists \cup TwoLensLists, o \in Origins, d \in Directions}

InitTrace ==
    /\ LoopAtRest
    /\ fn = "traceRay"
    /\ args \in TraceInputs
    /\ ret = NoCall

TraceRay ==
    /\ fn = "traceRay"
    /\ ~ret.done
    /\ \E undef \in UndefinedFloat :
           ret' = [done |-> TRUE, undef |-> undef,
                   out |-> traceRay(args.U, args.origin, args.direction, undef)]
    /\ UNCHANGED <<fn, args>>
    /\ UNCHANGED loopVars

SpecTrace == InitTrace /\ [][TraceRay]_vars

(* customRefract(I, N, eta) *)

\* Unit vectors in the xz and yz planes, as incident directions and as normals
Incidents ==
    {vec3(0, 0, -1000), vec3(280, 0, -960), vec3(600, 0, -800), vec3(660, 0, -751),
     vec3(670, 0, -742), vec3(800, 0, -600), vec3(960, 0, -280), vec3(0, 600, -800),
     vec3(0, 0, 1000), vec3(600, 0, 800), vec3(670, 0, 742), vec3(-800, 0, 600)}

Normals == {vec3(0, 0, 1000), vec3(0, 0, -1000), vec3(600, 0, 800)}

\* Ratios of refractive indices: glass to air and air to glass for n = 1.5
\* and for N-BK7 at the d-line, equal media, and n = 1.25
Etas == {1500, 667, 1517, 659, 1000, 1250}

InitRefract ==
    /\ LoopAtRest
    /\ fn = "customRefract"
    /\ args \in {[I |-> i, N |-> n, eta |-> e] : i \in Incidents, n \in Normals, e \in Etas}
    /\ ret = NoCall

Refract ==
    /\ fn = "customRefract"
    /\ ~ret.done
    /\ ret' = [done |-> TRUE, out |-> customRefract(args.I, args.N, args.eta)]
    /\ UNCHANGED <<fn, args>>
    /\ UNCHANGED loopVars

SpecRefract == InitRefract /\ [][Refract]_vars

(* updateSceneData's encoding of an object list, read back by fetchObjectRow *)

\* The catalogue, a sphere and a lens off the axis (main gives its lens a
\* position, Lens.addToScene adds a decenter), and a lens without glass
OffAxisSphere == SphereObject(vec3(F(10), F(-20), F(-40)), F(10))

OffAxisLens == LensObject(vec3(F(-3), F(4), F(12)), F(30), F(6), F(80), F(-50), GlassNegative)

NoGlassLens ==
    [position |-> vec3(F(1), F(2), F(3)), type |-> 2, radius |-> F(5), thickness |-> F(2),
     frontRadius |-> F(20), backRadius |-> F(-20)]

EncodeCatalogue == Catalogue \o <<OffAxisSphere, OffAxisLens, NoGlassLens>>

EncodeLists == {l \in ListsOf(EncodeCatalogue, MaxObjects) : Distinct(l)}

InitEncode ==
    /\ LoopAtRest
    /\ fn = "updateSceneData"
    /\ args \in {[objects |-> l] : l \in EncodeLists}
    /\ ret = NoCall

\* The four rows the shader decodes of each record
fetchedRows(U) ==
    [i \in 0..(U.uNumObjects - 1) |-> [row \in 0..3 |-> fetchObjectRow(U, i, row)]]

Encode ==
    /\ fn = "updateSceneData"
    /\ ~ret.done
    /\ \E U \in {encodeObjects(args.objects, FreshUniforms)} :
           ret' = [done |-> TRUE, U |-> U, rows |-> fetchedRows(U)]
    /\ UNCHANGED <<fn, args>>
    /\ UNCHANGED loopVars

SpecEncode == InitEncode /\ [][Encode]_vars

(* traceRays(origin, centerDirection), its loop one iteration at a time, as  *)
(* two invocations side by side over the same encoded records               *)

\* An empty scene, and a sphere in front of a lens whose index is undefined
SampleLists == {<<>>, <<NearSphere, PoleLens>>}

\* The origins of the two invocations: the same pixel twice, or two pixels
SampleOrigins == {<<vec3(F(10), 0, F(55)), vec3(F(10), 0, F(55))>>,
                  <<vec3(F(10), 0, F(55)), vec3(F(5), 0, F(55))>>}

\* centerDirection: the sensor's forward direction, straight and turned
SampleDirections == {vec3(0, 0, -Scale), planeForward(MulDiv(PI, Scale, F(18)))}

SampleInputs ==
    {[objects |-> l, U |-> encodeObjects(l, FreshUniforms), origin |-> o,
      centerDirection |-> d] : l \in SampleLists, o \in SampleOrigins, d \in SampleDirections}

\* vec3 finalColor = vec3(0.0), i = 0, in both invocations
SampleStart ==
    [done |-> FALSE, i |-> 0, rays |-> 0, randomDir |-> <<zero3, zero3>>,
     finalColor |-> <<zero3, zero3>>]

InitSample ==
    /\ LoopAtRest
    /\ fn = "traceRays"
    /\ args \in SampleInputs
    /\ ret = SampleStart

\* if (uNumObjects == 0) return vec3(0.1, 0.1, 0.15)
SampleEmpty ==
    /\ fn = "traceRays"
    /\ ~ret.done
    /\ args.U.uNumObjects = 0
    /\ ret' = [ret EXCEPT !.done = TRUE, !.finalColor = <<background, background>>]
    /\ UNCHANGED <<fn, args>>
    /\ UNCHANGED loopVars

\* One iteration of the for loop, in each invocation
SampleRay ==
    /\ fn = "traceRays"
    /\ ~ret.done
    /\ args.U.uNumObjects # 0
    /\ ret.i < directionCount
    /\ \E direction \in {normalize(args.centerDirection)} :
       \E firsts \in {{sampleRay(args.U, args.origin[1], direction, ret.i,
                                  ret.finalColor[1], undef) : undef \in UndefinedFloat}} :
       \E seconds \in {{sampleRay(args.U, args.origin[2], direction, ret.i,
                                   ret.finalColor[2], undef) : undef \in UndefinedFloat}} :
       \E first \in firsts, second \in seconds :
           ret' = [ret EXCEPT !.i = ret.i + 1, !.rays = ret.rays + 1,
                              !.randomDir = <<first.randomDir, second.randomDir>>,
                              !.finalColor = <<first.finalColor, second.finalColor>>]
    /\ UNCHANGED <<fn, args>>
    /\ UNCHANGED loopVars

\* After the loop: finalColor /= float(directionCount); return finalColor
SampleAverage ==
    /\ fn = "traceRays"
    /\ ~ret.done
    /\ args.U.uNumObjects # 0
    /\ ret.i = directionCount
    /\ ret' = [ret EXCEPT !.done = TRUE,
                          !.finalColor = <<averageColor(ret.finalColor[1]),
                                           averageColor(ret.finalColor[2])>>]
    /\ UNCHANGED <<fn, args>>
    /\ UNCHANGED loopVars

NextSample == SampleEmpty \/ SampleRay \/ SampleAverage

SpecSample == InitSample /\ [][NextSample]_vars

---------------------------------------------------------------------------
(* Lens.createLensMesh: the z of the surfaces it generates, one ring of      *)
(* vertices at a time (the vertices of a ring differ in x and y only)        *)

radialSegments == 32

\* calculateSurfaceZAtRadius with r2 / R in its first branch
paraxialSagFull(r2, R) == fdiv(r2, R)

\* The branch radius >= R of calculateSurfaceZAtRadius: sag = r2 / (2 * R)
paraxialSag(r2, R) == fdiv(r2, 2 * R)

\* The other branch with the root in the numerator:
\* r2 * (1 + Math.sqrt(discriminant)) / (2 * R)
fullSagProduct(r2, R) ==
    With(F(1) - fdiv(r2, fmul(R, R)), LAMBDA discriminant :
        fdiv(fmul(r2, F(1) + sqrt(discriminant)), 2 * R))

\* The other branch: discriminant = 1 - r2 / (R * R),
\* sag = r2 / (2 * R * (1 + Math.sqrt(discriminant)))
fullSag(r2, R) ==
    With(F(1) - fdiv(r2, fmul(R, R)), LAMBDA discriminant :
        fdiv(r2, fmul(2 * R, F(1) + sqrt(discriminant))))

calculateSurfaceZAtRadius(radiusOfCurvature, centerZ, radius) ==
    IF radiusOfCurvature = 0 THEN centerZ
    ELSE With2(fmul(radius, radius), abs(radiusOfCurvature), LAMBDA r2, R :
             IF radius >= R
             THEN With(paraxialSag(r2, R), LAMBDA sag :
                      centerZ + (IF radiusOfCurvature > 0 THEN sag ELSE -sag))
             ELSE With(fullSag(r2, R), LAMBDA sag :
                      centerZ + (IF radiusOfCurvature > 0 THEN sag ELSE -sag)))

\* calculateSurfaceZ: centerZ in both of its branches
calculateSurfaceZ(radiusOfCurvature, centerZ) ==
    IF radiusOfCurvature = 0 THEN centerZ ELSE centerZ

\* currentRadius of ring r: (r / radialSegments) * maxRadius
currentRadius(r, maxRadius) == MulDiv(F(r), maxRadius, F(radialSegments))

\* One iteration of the outer loop of generateSurfaceVertices: the radius of
\* ring r and the z of its vertices
surfaceRing(radiusOfCurvature, centerZ, maxRadius, r) ==
    With(currentRadius(r, maxRadius), LAMBDA radius :
        [radius |-> radius,
         z |-> calculateSurfaceZAtRadius(radiusOfCurvature, centerZ, radius)])

\* The options of main's lens and of other lenses: a half ball (the rim at
\* radius = R), curvatures below and just above the rim, a flat front, and a
\* meniscus away from the origin
Options(diameter, thickness, front, back, position) ==
    [diameter |-> diameter, thickness |-> thickness, frontSurface |-> [radius |-> front],
     backSurface |-> [radius |-> back], position |-> position, decenter |-> zero3]

LensOptions ==
    {Options(F(50), F(10), F(35), F(-35), zero3),
     Options(F(50), F(10), F(25), F(-25), zero3),
     Options(F(50), F(10), F(20), F(-20), zero3),
     Options(F(50), F(10), F(26), F(-26), zero3),
     Options(F(50), F(10), 0, F(-35), zero3),
     Options(F(30), F(6), F(-80), F(50), vec3(F(-3), F(4), F(12)))}

NoMesh == [done |-> FALSE, at |-> "front", r |-> 0, front |-> <<>>, back |-> <<>>,
           edge |-> <<>>, position |-> zero3]

InitLens ==
    /\ LoopAtRest
    /\ fn = "createLensMesh"
    /\ args \in LensOptions
    /\ ret = NoMesh

\* generateSurfaceVertices of the front surface, ring ret.r
FrontRing ==
    /\ fn = "createLensMesh"
    /\ ret.at = "front"
    /\ \E ring \in {surfaceRing(args.frontSurface.radius,
                               calculateSurfaceZ(args.frontSurface.radius,
                                                 -(args.thickness \div 2)),
                               args.diameter \div 2, ret.r)} :
           ret' = [ret EXCEPT !.front = Append(ret.front, ring),
                              !.r = IF ret.r = radialSegments THEN 0 ELSE ret.r + 1,
                              !.at = IF ret.r = radialSegments THEN "back" ELSE "front"]
    /\ UNCHANGED <<fn, args>>
    /\ UNCHANGED loopVars

\* generateSurfaceVertices of the back surface, ring ret.r
BackRing ==
    /\ fn = "createLensMesh"
    /\ ret.at = "back"
    /\ \E ring \in {surfaceRing(args.backSurface.radius,
                               calculateSurfaceZ(args.backSurface.radius,
                                                 args.thickness \div 2),
                               args.diameter \div 2, ret.r)} :
           ret' = [ret EXCEPT !.back = Append(ret.back, ring),
                              !.r = IF ret.r = radialSegments THEN 0 ELSE ret.r + 1,
                              !.at = IF ret.r = radialSegments THEN "edge" ELSE "back"]
    /\ UNCHANGED <<fn, args>>
    /\ UNCHANGED loopVars

\* generateEdgeVertices (frontEdgeZ, backEdgeZ), the rest of createLensMesh
\* and, in addToScene, this.mesh.position = position.add(decenter)
EdgeVertices ==
    /\ fn = "createLensMesh"
    /\ ret.at = "edge"
    /\ ret' = [ret EXCEPT
                  !.edge = <<calculateSurfaceZAtRadius(
                                 args.frontSurface.radius,
                                 calculateSurfaceZ(args.frontSurface.radius,
                                                   -(args.thickness \div 2)),
                                 args.diameter \div 2),
                             calculateSurfaceZAtRadius(
                                 args.backSurface.radius,
                                 calculateSurfaceZ(args.backSurface.radius,
                                                   args.thickness \div 2),
                                 args.diameter \div 2)>>,
                  !.position = vadd(args.position, args.decenter),
                  !.at = "done", !.done = TRUE]
    /\ UNCHANGED <<fn, args>>
    /\ UNCHANGED loopVars

NextLens == FrontRing \/ BackRing \/ EdgeVertices

SpecLens == InitLens /\ [][NextLens]_vars

---------------------------------------------------------------------------
(* Properties *)

\* The ray of the call under SpecTrace and record k (0-based) of its scene
tracedRay == Ray(args.origin, args.direction)

objectAt(k) == args.objects[k + 1]

\* The two roots of the traced ray on sphere object k
sphereRoots(k) == intersectSphere(tracedRay, objectAt(k).position, objectAt(k).radius)

\* C1: aperture clipping.  When the lens-body hit point of the selected lens
\* lies outside its aperture, the lens is a miss for that object only: a
\* sphere the same ray hits farther along still gives the hit colour.
C1_ApertureMissContinues ==
    (/\ ret.done
     /\ ret.out.branch = "aperture"
     /\ \E k \in 0..(Len(args.objects) - 1) :
            /\ objectAt(k).type = 1
            /\ sphereRoots(k)[1] > ret.out.closestT)
    => ret.out.color = hitColor

\* C2: a sphere record is hit whenever the quadratic has a root above the
\* epsilon, at the smallest such root; a ray that starts inside the sphere
\* (near root <= 0, far root > 0) hits it at the far root.
C2_SphereNearestPositiveRoot ==
    (/\ ret.done
     /\ Len(args.objects) = 1
     /\ objectAt(0).type = 1
     /\ (sphereRoots(0)[1] > epsilon \/ sphereRoots(0)[2] > epsilon))
    => /\ ret.out.hitObjIndex = 0
       /\ ret.out.closestT = IF sphereRoots(0)[1] > epsilon THEN sphereRoots(0)[1]
                             ELSE sphereRoots(0)[2]

\* C3: lens transmission scenario.  With main's lens at the origin (thickness
\* 10, front 35, back -35, N-BK7), main's sphere behind it on the axis and
\* the origin in front of the lens, the ray along the axis gets a valid
\* lens-body hit, refracts twice without total internal reflection, reaches
\* the sphere in the second pass and returns the hit colour through the lens
\* branch.
C3_AxisRayThroughMainLens ==
    (/\ ret.done
     /\ args.objects \in {<<MainLens, MainSphere>>, <<MainSphere, MainLens>>}
     /\ args.origin = vec3(0, 0, F(55))
     /\ args.direction = vec3(0, 0, -Scale))
    => /\ ret.out.hitIsLens
       /\ ret.out.refractions = 2
       /\ ret.out.branch = "through_hit"
       /\ ret.out.color = hitColor

\* a and b are parallel: a x b = 0
parallel(a, b) ==
    /\ fmul(a[2], b[3]) = fmul(a[3], b[2])
    /\ fmul(a[3], b[1]) = fmul(a[1], b[3])
    /\ fmul(a[1], b[2]) = fmul(a[2], b[1])

\* C4: normal incidence.  At the entry refraction and at the exit refraction
\* of traceRay, a direction parallel to the normal the code computes is
\* returned unchanged by customRefract, for every glass index.
C4_NormalIncidenceStraight ==
    (ret.done /\ ret.out.n_glass.kind = "num")
    => /\ (ret.out.refractions >= 1 /\ parallel(args.direction, ret.out.normal_in))
              => ret.out.dir_internal.v = args.direction
       /\ (ret.out.refractions = 2 /\ parallel(ret.out.dir_internal.v, ret.out.normal_out))
              => ret.out.final_dir.v = ret.out.dir_internal.v

\* 1 - (N.I)^2 of the call under SpecRefract: sin^2 of the incidence angle
sin2Incidence == F(1) - fmul(dot(args.N, args.I), dot(args.N, args.I))

\* C5: total-internal-reflection boundary.  customRefract(I, N, eta) returns
\* the zero vector exactly when eta^2 * (1 - (N.I)^2) > 1 and a non-zero
\* direction otherwise; for eta = 1.5 that is no transmission when sin^2 of
\* the incidence angle exceeds 4/9 and a direction when it is below 4/9.
C5_TotalInternalReflectionBoundary ==
    ret.done
    => /\ (ret.out = zero3) <=> (fmul(fmul(args.eta, args.eta), sin2Incidence) > F(1))
       /\ args.eta = 1500
              => /\ 9 * sin2Incidence > 4 * Scale => ret.out = zero3
                 /\ 9 * sin2Incidence < 4 * Scale => ret.out # zero3

\* C5 at work: glass to air at n = 1.5, a call just beyond the critical
\* angle (sin^2 between 4/9 and 5/9), refused
C5_Witness ==
    /\ ret.done
    /\ args.eta = 1500
    /\ 9 * sin2Incidence > 4 * Scale
    /\ 9 * sin2Incidence < 5 * Scale
    /\ ret.out = zero3

\* The glass of the lens traceRay selected
selectedGlass == objectAt(ret.out.hitObjIndex).glass

\* C6: dispersion failure.  At a pole (l2 equal to C1, C2 or C3) or with a
\* negative n^2, sellmeier yields an invalid-dispersion outcome, not an
\* undefined (NaN or infinite) index, and traceRay ends the ray with no
\* refraction computed from it.
C6_InvalidDispersionTerminates ==
    (/\ ret.done
     /\ ret.out.hitIsLens
     /\ ret.out.branch # "aperture"
     /\ selectedGlass \in {GlassPole, GlassNegative})
    => /\ ret.out.n_glass \notin UndefinedFloat
       /\ ret.out.refractions = 0

\* The valid positive hit parameter of object k on the traced ray (-1: none):
\* the smallest root above the epsilon of a sphere, t_hit of a valid lens body
validT(k) ==
    IF objectAt(k).type = 1
    THEN (IF sphereRoots(k)[1] > epsilon THEN sphereRoots(k)[1]
          ELSE IF sphereRoots(k)[2] > epsilon THEN sphereRoots(k)[2]
          ELSE -1)
    ELSE With(lensBody(tracedRay, objectAt(k).position,
                       <<objectAt(k).radius, objectAt(k).thickness,
                         objectAt(k).frontRadius, objectAt(k).backRadius>>),
              LAMBDA body : IF body.valid THEN body.t_hit ELSE -1)

objectsHit == {k \in 0..(Len(args.objects) - 1) : validT(k) > 0}

\* C7: nearest-hit policy.  Whatever the objects and their order, traceRay
\* selects an object whenever the ray hits one, and the object it selects
\* has the lowest valid positive hit parameter among the objects hit.
C7_NearestHitPolicy ==
    (ret.done /\ objectsHit # {})
    => /\ ret.out.hitObjIndex \in objectsHit
       /\ \A j \in objectsHit : validT(ret.out.hitObjIndex) <= validT(j)

\* The optical objects of a scene: its sphere meshes and its lens meshes
opticalMeshes(ms) ==
    {k \in DOMAIN ms : nameIncludesSphere(ms[k].name) \/ ms[k].metadata.type = "Lens"}

\* Texture coordinates of pixels: two corners and the centre of the sensor
PixelUVs == {<<0, 0>>, <<Scale \div 2, Scale \div 2>>, <<Scale - 1, Scale - 1>>}

\* C8: empty scene.  With no optical object in the scene, updateSceneData
\* leaves the object count 0 and traceRays returns exactly the background
\* colour for every pixel without tracing a ray (so that fetchObjectRow
\* never divides by a zero count).
C8_EmptySceneBackground ==
    /\ opticalMeshes(meshes) = {} => uniforms.uNumObjects = 0
    /\ (scan.frame > 0 /\ opticalMeshes(scan.meshes) = {})
           => /\ scan.uniforms.uNumObjects = 0
              /\ \A vUV \in PixelUVs, undef \in UndefinedFloat :
                     /\ shaderMain(scan.uniforms, vUV, undef).color = background
                     /\ shaderMain(scan.uniforms, vUV, undef).rays = 0

\* C8 at work: a scan of a scene without optical objects, after an update
C8_Witness ==
    /\ scan.frame > 0
    /\ opticalMeshes(scan.meshes) = {}
    /\ scan.uniforms = uniforms
    /\ uniforms.uNumObjects = 0
    /\ accumTime > 0

\* C9: encoder round trip and order.  updateSceneData writes object i into
\* record i and fetchObjectRow(i, 0..3) reads back that object's position
\* and kind, its radius or aperture, thickness and curvatures, B1..B3 and
\* C1..C3; no record holds a field of another object.
C9_EncoderRoundTrip ==
    ret.done
    => /\ ret.U.uNumObjects = Len(args.objects)
       /\ DOMAIN ret.rows = 0..(Len(args.objects) - 1)
       /\ \A i \in DOMAIN ret.rows :
              /\ ret.rows[i][0] = <<objectAt(i).position[1], objectAt(i).position[2],
                                    objectAt(i).position[3], F(objectAt(i).type)>>
              /\ ret.rows[i][1] = <<objectAt(i).radius, orZero(objectAt(i), "thickness"),
                                    orZero(objectAt(i), "frontRadius"),
                                    orZero(objectAt(i), "backRadius")>>
              /\ (objectAt(i).type = 2 /\ "glass" \in DOMAIN objectAt(i))
                     => /\ xyz(ret.rows[i][2]) = <<objectAt(i).glass.dispersion.B1,
                                                   objectAt(i).glass.dispersion.B2,
                                                   objectAt(i).glass.dispersion.B3>>
                        /\ xyz(ret.rows[i][3]) = <<objectAt(i).glass.dispersion.C1,
                                                   objectAt(i).glass.dispersion.C2,
                                                   objectAt(i).glass.dispersion.C3>>
              /\ (objectAt(i).type = 1 \/ "glass" \notin DOMAIN objectAt(i))
                     => /\ xyz(ret.rows[i][2]) = zero3
                        /\ xyz(ret.rows[i][3]) = zero3

\* C9 at work: a lens encoded behind a sphere and read back from record 1
C9_Witness ==
    /\ ret.done
    /\ args.objects = <<OffAxisSphere, MainLens>>
    /\ xyz(ret.rows[1][2]) = <<NBK7.dispersion.B1, NBK7.dispersion.B2, NBK7.dispersion.B3>>
    /\ ret.rows[0][0] = <<F(10), F(-20), F(-40), F(1)>>

\* C10: encoder freshness.  At every scan, the first included, the object
\* count and the records the shader reads are the encoding of all optical
\* objects of the scene at that moment, every sphere and every lens, at
\* their current positions.
C10_ScanEncodesAllOpticalObjects ==
    scan.frame > 0
    => /\ scan.uniforms.uNumObjects = Cardinality(opticalMeshes(scan.meshes))
       /\ \A k \in opticalMeshes(scan.meshes) :
              \E i \in 0..(scan.uniforms.uNumObjects - 1) :
                  /\ xyz(fetchObjectRow(scan.uniforms, i, 0)) = scan.meshes[k].position
                  /\ int(fetchObjectRow(scan.uniforms, i, 0)[4])
                         = (IF scan.meshes[k].metadata.type = "Lens" THEN 2 ELSE 1)

\* C11: pixel ray origin.  At every scan, the ray origin of each pixel is
\* the sensor position plus the pixel-centre offset turned by the sensor's
\* orientation, so the origin lies in the sensor plane: (origin -
\* sensorPosition) . sensorForward = 0, to within the rounding of the grid
\* (0.1 for offsets of up to 32 units).
C11_PixelOriginInSensorPlane ==
    scan.frame > 0
    => \A vUV \in PixelUVs :
           abs(dot(vsub(pixelOrigin(scan.uniforms, vUV), scan.uniforms.uSensorPosition),
                   scan.uniforms.uSensorForward)) <= Scale \div 10

\* The records other than the selected lens that the second pass reaches
\* before the hit that ends it
remainingObjects ==
    {k \in 0..(Len(args.objects) - 1) :
        /\ k # ret.out.hitObjIndex
        /\ ret.out.secondHit = -1 \/ k <= ret.out.secondHit}

\* C12: second pass after transmission.  Once a ray has refracted out of a
\* lens, the continuing ray is tested against every encoded object other
\* than the lens just traversed, spheres and other lenses alike, and the
\* traversed lens itself is not tested again.
C12_SecondPassTestsRemainingObjects ==
    (ret.done /\ ret.out.branch \in {"through_hit", "through_dir"})
    => /\ ret.out.hitObjIndex \notin ret.out.tested
       /\ remainingObjects \subseteq ret.out.tested

\* C13: colour policy of traceRay.  The result is the hit colour when the
\* nearest hit is a sphere or a transmitted ray hits a sphere, final_dir *
\* 0.5 + 0.5 when the transmission through the lens succeeds and the exit
\* ray hits no sphere, and the background colour in every other case: no
\* hit, a lens hit outside the aperture, no transmission at entry or at
\* exit, no exit point.
C13_ColourPolicy ==
    ret.done
    => ret.out.color =
           IF ret.out.hitObjIndex = -1 THEN background
           ELSE IF ~ret.out.hitIsLens THEN vec3(Scale, Scale \div 5, Scale \div 5)
           ELSE IF ret.out.refractions = 2 /\ transmitted(ret.out.final_dir)
           THEN (IF ret.out.secondHit # -1 THEN vec3(Scale, Scale \div 5, Scale \div 5)
                 ELSE vec3(fmul(ret.out.final_dir.v[1], Scale \div 2) + Scale \div 2,
                           fmul(ret.out.final_dir.v[2], Scale \div 2) + Scale \div 2,
                           fmul(ret.out.final_dir.v[3], Scale \div 2) + Scale \div 2))
           ELSE vec3(Scale \div 10, Scale \div 10, (15 * Scale) \div 100)

\* C13 at work: a ray that refracted twice and whose final ray hit a sphere
\* in the second pass returns the hit colour
C13_Witness ==
    /\ ret.done
    /\ ret.out.hitIsLens
    /\ ret.out.refractions = 2
    /\ ret.out.secondHit # -1
    /\ objectAt(ret.out.secondHit).type = 1
    /\ ret.out.color = hitColor

meshSurfaces ==
    <<[c |-> args.frontSurface.radius, centerZ |-> -(args.thickness \div 2),
       rings |-> ret.front, edge |-> IF ret.done THEN <<ret.edge[1]>> ELSE <<>>],
      [c |-> args.backSurface.radius, centerZ |-> args.thickness \div 2,
       rings |-> ret.back, edge |-> IF ret.done THEN <<ret.edge[2]>> ELSE <<>>]>>

\* The offset of a z of surface s from the vertex plane, in the direction of
\* the sign of the curvature
sagOf(s, z) == sign(meshSurfaces[s].c) * (z - meshSurfaces[s].centerZ)

\* C15: sag continuity.  For a non-zero curvature with R = abs(curvature),
\* the value calculateSurfaceZAtRadius gives at radius = R (through the
\* branch radius >= R) is the value the formula of the other branch takes at
\* radius = R: both offsets are R / 2, with the sign of the curvature.
C15_SagContinuity ==
    \A s \in 1..2 :
        meshSurfaces[s].c # 0
        => /\ \A k \in DOMAIN meshSurfaces[s].rings :
                  meshSurfaces[s].rings[k].radius = abs(meshSurfaces[s].c)
                  => /\ sagOf(s, meshSurfaces[s].rings[k].z)
                            = fullSag(fmul(abs(meshSurfaces[s].c), abs(meshSurfaces[s].c)),
                                      abs(meshSurfaces[s].c))
                     /\ abs(2 * sagOf(s, meshSurfaces[s].rings[k].z)
                                - abs(meshSurfaces[s].c)) <= 1
           /\ (ret.done /\ args.diameter \div 2 = abs(meshSurfaces[s].c))
                  => sagOf(s, meshSurfaces[s].edge[1])
                         = fullSag(fmul(abs(meshSurfaces[s].c), abs(meshSurfaces[s].c)),
                                   abs(meshSurfaces[s].c))

\* C15 at work: the half ball, whose rim ring lies at radius = R = 25: the
\* rim of the front surface is offset by 12.5 from the vertex at z = -5
C15_Witness ==
    /\ ret.done
    /\ args.frontSurface.radius = F(25)
    /\ ret.front[radialSegments + 1].radius = F(25)
    /\ ret.front[radialSegments + 1].z = F(-5) + F(25) \div 2
    /\ ret.edge[1] = ret.front[radialSegments + 1].z

\* C16: sag monotonicity.  For a positive curvature and radii 0 <= r1 <= r2
\* < R, the offset calculateSurfaceZAtRadius computes at r1 is not greater
\* than the one at r2.
C16_SagMonotone ==
    \A s \in 1..2 :
        meshSurfaces[s].c > 0
        => \A i, j \in DOMAIN meshSurfaces[s].rings :
               (/\ meshSurfaces[s].rings[i].radius <= meshSurfaces[s].rings[j].radius
                /\ meshSurfaces[s].rings[j].radius < meshSurfaces[s].c)
               => sagOf(s, meshSurfaces[s].rings[i].z) <= sagOf(s, meshSurfaces[s].rings[j].z)

\* C16 at work: the front surface of curvature 26 under an aperture of radius
\* 25, all of whose rings lie below R, with a sag that grows up to the rim
C16_Witness ==
    /\ ret.done
    /\ args.frontSurface.radius = F(26)
    /\ ret.front[radialSegments + 1].radius < F(26)
    /\ ret.front[radialSegments + 1].z > ret.front[radialSegments].z
    /\ ret.front[radialSegments].z > ret.front[2].z
    /\ ret.front[2].z > ret.front[1].z

\* C17: exact spherical sag.  For a non-zero curvature and 0 <= radius < R,
\* the offset calculateSurfaceZAtRadius computes is the sag of a sphere of
\* radius R, R - sqrt(R^2 - radius^2) (to within 0.01), so that the vertex
\* it generates lies on the sphere of radius R through the surface vertex.
C17_ExactSphericalSag ==
    \A s \in 1..2 :
        meshSurfaces[s].c # 0
        => \A k \in DOMAIN meshSurfaces[s].rings :
               meshSurfaces[s].rings[k].radius < abs(meshSurfaces[s].c)
               => abs(sagOf(s, meshSurfaces[s].rings[k].z)
                        - (abs(meshSurfaces[s].c)
                             - sqrt(fmul(meshSurfaces[s].c, meshSurfaces[s].c)
                                      - fmul(meshSurfaces[s].rings[k].radius,
                                             meshSurfaces[s].rings[k].radius))))
                      <= Scale \div 100

\* The sphere traceRay chose as the entry surface of the lens it selected:
\* center_in and the radius of curvature that belongs to it
entrySphere ==
    With(lensSpheres(objectAt(ret.out.hitObjIndex).position,
                     <<objectAt(ret.out.hitObjIndex).radius,
                       objectAt(ret.out.hitObjIndex).thickness,
                       objectAt(ret.out.hitObjIndex).frontRadius,
                       objectAt(ret.out.hitObjIndex).backRadius>>), LAMBDA g :
        IF ret.out.isEnteringFront
        THEN [center |-> g.center_front, radius |-> abs(g.r_front)]
        ELSE [center |-> g.center_back, radius |-> abs(g.r_back)])

\* C18: entry surface.  Whenever traceRay refracts at a lens entry, closestT
\* is the near root of the entry sphere it chose and the hit position lies
\* on that sphere (at abs of its radius of curvature from center_in, to
\* within 0.1), also for a ray whose origin is inside the lens body.
C18_EntryOnEntrySphere ==
    (ret.done /\ ret.out.refractions >= 1)
    => /\ ret.out.closestT
              = intersectSphere(tracedRay, entrySphere.center, entrySphere.radius)[1]
       /\ abs(length(vsub(ret.out.hitPos, entrySphere.center)) - entrySphere.radius)
              <= Scale \div 10

\* The spheres the shader places for the lens of the mesh under SpecLens, as
\* updateSceneData encodes it: <<centre z, radius of curvature>> of the front
\* and of the back surface
tracerSurfaces ==
    With(lensSpheres(ret.position, <<args.diameter \div 2, args.thickness,
                                     args.frontSurface.radius, args.backSurface.radius>>),
         LAMBDA g : <<[centerZ |-> g.center_front[3], c |-> g.r_front],
                      [centerZ |-> g.center_back[3], c |-> g.r_back]>>)

\* z in the scene of the vertex of surface s of the mesh (ring 0)
meshVertexZ(s) == ret.position[3] + meshSurfaces[s].rings[1].z

\* C19: mesh and tracer describe the same surface.  For every lens surface
\* of non-zero curvature c, the sphere of the shader passes through the
\* vertex of the mesh, z = center.z -/+ thickness / 2, and its centre of
\* curvature lies on the side of the vertex plane towards which the mesh
\* bends away from it.
C19_MeshAndTracerAgree ==
    ret.done
    => \A s \in 1..2 :
           meshSurfaces[s].c # 0
           => /\ meshVertexZ(s) = ret.position[3] + meshSurfaces[s].centerZ
              /\ abs(tracerSurfaces[s].centerZ - meshVertexZ(s)) = abs(meshSurfaces[s].c)
              /\ \A k \in DOMAIN meshSurfaces[s].rings :
                     meshSurfaces[s].rings[k].z # meshSurfaces[s].rings[1].z
                     => sign(meshSurfaces[s].rings[k].z - meshSurfaces[s].rings[1].z)
                            = sign(tracerSurfaces[s].centerZ - meshVertexZ(s))

====
